---------------------------- MODULE Spec2Model ----------------------------
(***************************************************************************)
(* number_to_text (src/main.rs): conversion of signed 64-bit integers and  *)
(* decimal values to words, ordinals, currency phrases and Roman numerals. *)
(*                                                                         *)
(* Representation.  TLC integers are 32 bits wide, the program's are 64.   *)
(* An i64 is therefore a record [neg, mag]: a sign flag and a magnitude    *)
(* of NGroups groups in base 1000, mag[1] being the least significant.     *)
(* The divisors of SCALE_UNITS are the powers 1000^k, so that the          *)
(* program's  number / divisor  and  number % divisor  are group shifts.   *)
(* Word lists (Vec<String>) are sequences of strings, texts are strings.   *)
(* A Result is a record [ok, val, err]: Ok(v) has ok = TRUE, Err(kind) has *)
(* ok = FALSE and err the name of the NumberConversionError variant; a     *)
(* panic (an aborted call) is recorded as err = "panic".                   *)
(***************************************************************************)
EXTENDS Integers, Sequences, FiniteSets, TLC

VARIABLES
    pc,               \* "prompt": waiting for a request; "printed": a call returned
    overflow_checks,  \* build profile: TRUE = debug (overflow panics), FALSE = release (wraps)
    op,               \* the library function last called
    number,           \* its i64 argument
    amount,           \* its f64 argument: [class, milli], thousandths when finite
    lang,             \* its language code
    result,           \* what it returned
    stack             \* arguments of the active convert / convert_with_lang calls, innermost last

vars == <<pc, overflow_checks, op, number, amount, lang, result, stack>>

(***************************************************************************)
(* Bounds of the explored inputs.                                          *)
(***************************************************************************)
MaxSmall == 1100      \* integers -MaxSmall..MaxSmall are all explored
MaxRomanArg == 4002   \* to_roman is explored on -3..MaxRomanArg
MaxMilli == 2100      \* decimals -MaxMilli..MaxMilli thousandths are explored

(***************************************************************************)
(* 64-bit integers                                                         *)
(***************************************************************************)
NGroups == 7
Base == 1000

GroupIdx == 1..NGroups
ZeroMag == [i \in GroupIdx |-> 0]

I64(neg, mag) == [neg |-> neg, mag |-> mag]

\* An integer literal of the source, |n| < 10^9.
FromInt(n) ==
    LET a == IF n < 0 THEN -n ELSE n
    IN  I64(n < 0, [i \in GroupIdx |->
                       CASE i = 1 -> a % Base
                         [] i = 2 -> (a \div Base) % Base
                         [] i = 3 -> a \div (Base * Base)
                         [] OTHER -> 0])

\* The value as a TLC integer, defined when it is below 10^9 in magnitude.
Fits(v) == \A i \in 4..NGroups : v.mag[i] = 0
ToInt(v) ==
    LET a == v.mag[1] + Base * v.mag[2] + Base * Base * v.mag[3]
    IN  IF v.neg THEN -a ELSE a

MagLess(a, b) ==
    \E i \in GroupIdx : a[i] < b[i] /\ \A j \in (i + 1)..NGroups : a[j] = b[j]

\* a < b and a >= b on i64
I64Less(a, b) ==
    CASE a.neg /\ ~b.neg -> TRUE
      [] ~a.neg /\ b.neg -> FALSE
      [] a.neg /\ b.neg  -> MagLess(b.mag, a.mag)
      [] OTHER           -> MagLess(a.mag, b.mag)
I64Ge(a, b) == ~I64Less(a, b)

I64_MAX == I64(FALSE, <<807, 775, 854, 36, 372, 223, 9>>)   \* 2^63 - 1
I64_MIN == I64(TRUE, <<808, 775, 854, 36, 372, 223, 9>>)    \* -2^63

IsI64(v) ==
    /\ v.mag \in [GroupIdx -> 0..(Base - 1)]
    /\ (v.mag = ZeroMag => ~v.neg)
    /\ I64Ge(v, I64_MIN)
    /\ I64Ge(I64_MAX, v)

\* v / d truncated toward zero, for a small positive d (long division).
RECURSIVE CarryInto(_, _, _)
CarryInto(mag, d, i) ==
    IF i = NGroups THEN 0
    ELSE (CarryInto(mag, d, i + 1) * Base + mag[i + 1]) % d
I64DivSmall(v, d) ==
    LET q == [i \in GroupIdx |-> (CarryInto(v.mag, d, i) * Base + v.mag[i]) \div d]
    IN  I64(v.neg /\ q # ZeroMag, q)

\* v % d with the sign of the dividend (Rust's %), for d = 10 or 100.
I64RemSmall(v, d) ==
    LET r == v.mag[1] % d
    IN  IF v.neg THEN -r ELSE r

\* v / 1000^k and v % 1000^k, truncated toward zero.
I64DivScale(v, k) ==
    LET q == [i \in GroupIdx |-> IF i + k <= NGroups THEN v.mag[i + k] ELSE 0]
    IN  I64(v.neg /\ q # ZeroMag, q)
I64RemScale(v, k) ==
    LET r == [i \in GroupIdx |-> IF i <= k THEN v.mag[i] ELSE 0]
    IN  I64(v.neg /\ r # ZeroMag, r)

\* i64::abs where it does not overflow; on i64::MIN the release build wraps
\* back to i64::MIN (the debug build panics, see number_to_text).
wrapping_abs(v) == IF v = I64_MIN THEN I64_MIN ELSE I64(FALSE, v.mag)
abs_overflows(v) == v = I64_MIN

\* i64::MAX / 2, the limit of convert and convert_with_lang
HALF_MAX == I64DivSmall(I64_MAX, 2)

(***************************************************************************)
(* Results and texts                                                       *)
(***************************************************************************)
Ok(v) == [ok |-> TRUE, val |-> v, err |-> ""]
Err(kind) == [ok |-> FALSE, val |-> "", err |-> kind]
ErrW(kind) == [ok |-> FALSE, val |-> <<>>, err |-> kind]
Panic == Err("panic")

\* .map_err(|e| NumberConversionError::ConversionError(format!(..., e)))
map_err(r) == IF r.ok THEN r ELSE ErrW("ConversionError")

\* words.join(sep)
RECURSIVE join(_, _)
join(words, sep) ==
    IF words = <<>> THEN ""
    ELSE IF Len(words) = 1 THEN words[1]
    ELSE words[1] \o sep \o join(Tail(words), sep)

(***************************************************************************)
(* English converter                                                       *)
(***************************************************************************)
\* SCALE_UNITS without the 10^9 entry: a gap of 10^6 between two divisors
SCALE_UNITS_gap == <<
    [exp |-> 6, unit |-> "Sextillion"],
    [exp |-> 5, unit |-> "Quintillion"],
    [exp |-> 4, unit |-> "Quadrillion"],
    [exp |-> 2, unit |-> "Billion"],
    [exp |-> 1, unit |-> "Million"] >>

\* (exponent k of the divisor 1000^k, unit name), largest first
SCALE_UNITS == <<
    [exp |-> 6, unit |-> "Sextillion"],
    [exp |-> 5, unit |-> "Quintillion"],
    [exp |-> 4, unit |-> "Quadrillion"],
    [exp |-> 3, unit |-> "Trillion"],
    [exp |-> 2, unit |-> "Billion"],
    [exp |-> 1, unit |-> "Million"] >>

\* the divisor 1000^k as an i64
Divisor(k) == I64(FALSE, [i \in GroupIdx |-> IF i = k + 1 THEN 1 ELSE 0])

\* the word standing for the unreachable!() arm of ordinalize
Unreachable == "<unreachable>"

ordinalize(num) ==
    CASE num = 1 -> "One"
      [] num = 2 -> "Two"
      [] num = 3 -> "Three"
      [] num = 4 -> "Four"
      [] num = 5 -> "Five"
      [] num = 6 -> "Six"
      [] num = 7 -> "Seven"
      [] num = 8 -> "Eight"
      [] num = 9 -> "Nine"
      [] num = 10 -> "Ten"
      [] num = 11 -> "Eleven"
      [] num = 12 -> "Twelve"
      [] num = 13 -> "Thirteen"
      [] num = 14 -> "Fourteen"
      [] num = 15 -> "Fifteen"
      [] num = 16 -> "Sixteen"
      [] num = 17 -> "Seventeen"
      [] num = 18 -> "Eighteen"
      [] num = 19 -> "Nineteen"
      [] OTHER -> Unreachable

convert_tens(n) ==
    CASE n = 2 -> "Twenty"
      [] n = 3 -> "Thirty"
      [] n = 4 -> "Forty"
      [] n = 5 -> "Fifty"
      [] n = 6 -> "Sixty"
      [] n = 7 -> "Seventy"
      [] n = 8 -> "Eighty"
      [] n = 9 -> "Ninety"
      [] OTHER -> ""

\* convert_small_number without the push of "and" after the hundreds
convert_small_number_no_and(n) ==
    IF I64Ge(n, FromInt(1000)) THEN ErrW("InvalidInput")
    ELSE
      LET hundreds == IF I64Ge(n, FromInt(100))
                      THEN <<ordinalize(ToInt(n) \div 100) \o " Hundred">>
                      ELSE <<>>
          remainder == I64RemSmall(n, 100)
          rest == IF remainder < 20
                  THEN <<ordinalize(remainder)>>
                  ELSE <<convert_tens(remainder \div 10)>>
                       \o (IF remainder % 10 > 0
                           THEN <<ordinalize(remainder % 10)>>
                           ELSE <<>>)
      IN  Ok(IF remainder > 0 THEN hundreds \o rest ELSE hundreds)

\* convert_small_number: the words of a number below 1000
convert_small_number(n) ==
    IF I64Ge(n, FromInt(1000)) THEN ErrW("InvalidInput")
    ELSE
      LET hundreds == IF I64Ge(n, FromInt(100))
                      THEN <<ordinalize(ToInt(n) \div 100) \o " Hundred">>
                      ELSE <<>>
          remainder == I64RemSmall(n, 100)
          conj == IF hundreds # <<>> THEN <<"and">> ELSE <<>>
          rest == IF remainder < 20
                  THEN <<ordinalize(remainder)>>
                  ELSE <<convert_tens(remainder \div 10)>>
                       \o (IF remainder % 10 > 0
                           THEN <<ordinalize(remainder % 10)>>
                           ELSE <<>>)
      IN  Ok(IF remainder > 0 THEN hundreds \o conj \o rest ELSE hundreds)

RECURSIVE convert(_)
\* convert_large_number joining the remainder's words with "and"
convert_large_number_and(n, k, unit) ==
    LET quotient == I64DivScale(n, k)
        remainder == I64RemScale(n, k)
        q == IF quotient.mag # ZeroMag
             THEN map_err(convert_small_number(quotient))
             ELSE Ok(<<>>)
        qwords == IF quotient.mag # ZeroMag THEN q.val \o <<unit>> ELSE <<>>
    IN  IF ~q.ok THEN q
        ELSE IF remainder.mag # ZeroMag
        THEN LET r == map_err(convert(remainder))
             IN  IF ~r.ok THEN r ELSE Ok(qwords \o <<"and">> \o r.val)
        ELSE Ok(qwords)

\* convert_large_number(number, divisor = 1000^k, unit)
convert_large_number(n, k, unit) ==
    LET quotient == I64DivScale(n, k)
        remainder == I64RemScale(n, k)
        q == IF quotient.mag # ZeroMag
             THEN map_err(convert_small_number(quotient))
             ELSE Ok(<<>>)
        qwords == IF quotient.mag # ZeroMag THEN q.val \o <<unit>> ELSE <<>>
    IN  IF ~q.ok THEN q
        ELSE IF remainder.mag # ZeroMag
        THEN LET r == map_err(convert(remainder))
             IN  IF ~r.ok THEN r ELSE Ok(qwords \o r.val)
        ELSE Ok(qwords)

\* the first scale unit whose divisor is <= n, 0 when there is none
RECURSIVE FirstScale(_, _)
FirstScale(n, i) ==
    IF i > Len(SCALE_UNITS) THEN 0
    ELSE IF I64Ge(n, Divisor(SCALE_UNITS[i].exp)) THEN i
    ELSE FirstScale(n, i + 1)

\* convert with the limit tested by > instead of >=
convert_strict_limit(n) ==
    IF I64Less(HALF_MAX, n) THEN ErrW("ValueTooLarge")
    ELSE LET i == FirstScale(n, 1)
         IN  IF i # 0
             THEN map_err(convert_large_number(n, SCALE_UNITS[i].exp, SCALE_UNITS[i].unit))
             ELSE map_err(convert_small_number(n))

convert(n) ==
    IF I64Ge(n, HALF_MAX) THEN ErrW("ValueTooLarge")
    ELSE LET i == FirstScale(n, 1)
         IN  IF i # 0
             THEN map_err(convert_large_number(n, SCALE_UNITS[i].exp, SCALE_UNITS[i].unit))
             ELSE map_err(convert_small_number(n))

\* number_to_text without the push of "Minus"
number_to_text_no_minus(n) ==
    IF n.mag = ZeroMag THEN Ok("Zero")
    ELSE IF abs_overflows(n) /\ overflow_checks THEN Panic
    ELSE LET c == convert(wrapping_abs(n))
         IN  IF ~c.ok THEN Err(c.err) ELSE Ok(join(c.val, " "))

number_to_text(n) ==
    IF n.mag = ZeroMag THEN Ok("Zero")
    ELSE IF abs_overflows(n) /\ overflow_checks THEN Panic
    ELSE LET minus == IF n.neg THEN <<"Minus">> ELSE <<>>
             c == convert(wrapping_abs(n))
         IN  IF ~c.ok THEN Err(c.err) ELSE Ok(join(minus \o c.val, " "))

(***************************************************************************)
(* Roman numerals                                                          *)
(***************************************************************************)
ROMAN_NUMERALS == <<
    [value |-> 1000, numeral |-> "M"],
    [value |-> 900, numeral |-> "CM"],
    [value |-> 500, numeral |-> "D"],
    [value |-> 400, numeral |-> "CD"],
    [value |-> 100, numeral |-> "C"],
    [value |-> 90, numeral |-> "XC"],
    [value |-> 50, numeral |-> "L"],
    [value |-> 40, numeral |-> "XL"],
    [value |-> 10, numeral |-> "X"],
    [value |-> 9, numeral |-> "IX"],
    [value |-> 5, numeral |-> "V"],
    [value |-> 4, numeral |-> "IV"],
    [value |-> 1, numeral |-> "I"] >>

\* the loops of to_roman with `if` in place of `while`
RECURSIVE roman_pushes_once(_, _)
roman_pushes_once(i, remaining) ==
    IF i > Len(ROMAN_NUMERALS) THEN <<>>
    ELSE IF remaining >= ROMAN_NUMERALS[i].value
    THEN <<i>> \o roman_pushes_once(i + 1, remaining - ROMAN_NUMERALS[i].value)
    ELSE roman_pushes_once(i + 1, remaining)

\* The loops of to_roman, from table entry i with `remaining` left: the
\* sequence of table entries whose numerals are pushed onto the result.
RECURSIVE roman_pushes(_, _)
roman_pushes(i, remaining) ==
    IF i > Len(ROMAN_NUMERALS) THEN <<>>
    ELSE IF remaining >= ROMAN_NUMERALS[i].value
    THEN <<i>> \o roman_pushes(i, remaining - ROMAN_NUMERALS[i].value)
    ELSE roman_pushes(i + 1, remaining)

to_roman(n) ==
    IF ~I64Less(FromInt(0), n) THEN Err("InvalidInput")
    ELSE IF I64Less(FromInt(3999), n) THEN Err("InvalidInput")
    ELSE LET pushes == roman_pushes(1, ToInt(n))
         IN  Ok(join([k \in 1..Len(pushes) |-> ROMAN_NUMERALS[pushes[k]].numeral], ""))

(***************************************************************************)
(* Ordinals                                                                *)
(***************************************************************************)
Digits == <<"0", "1", "2", "3", "4", "5", "6", "7", "8", "9">>
Digit(d) == Digits[d + 1]

\* a group in decimal: as it is (leading group) or padded to three digits
GroupPlain(g) ==
    IF g >= 100 THEN Digit(g \div 100) \o Digit((g \div 10) % 10) \o Digit(g % 10)
    ELSE IF g >= 10 THEN Digit(g \div 10) \o Digit(g % 10)
    ELSE Digit(g)
GroupPadded(g) == Digit(g \div 100) \o Digit((g \div 10) % 10) \o Digit(g % 10)

\* format!("{}", number) of an i64
RECURSIVE MagDecimal(_, _)
MagDecimal(mag, i) ==
    IF i > 1 /\ mag[i] = 0 THEN MagDecimal(mag, i - 1)
    ELSE GroupPlain(mag[i]) \o
         join([k \in 1..(i - 1) |-> GroupPadded(mag[i - k])], "")
i64_to_string(v) == (IF v.neg THEN "-" ELSE "") \o MagDecimal(v.mag, NGroups)

to_ordinal(n) ==
    LET d1 == I64RemSmall(n, 10)
        d2 == I64RemSmall(n, 100)
        suffix == CASE (d1 = 1 /\ d2 = 11) \/ (d1 = 2 /\ d2 = 12) \/ (d1 = 3 /\ d2 = 13) -> "th"
                    [] d1 = 1 -> "st"
                    [] d1 = 2 -> "nd"
                    [] d1 = 3 -> "rd"
                    [] OTHER -> "th"
        words == number_to_text(n)
    IN  IF ~words.ok THEN words
        ELSE Ok(words.val \o " (" \o i64_to_string(n) \o suffix \o ")")

(***************************************************************************)
(* Decimal values.  An f64 argument is [class, milli]: a finite value is   *)
(* milli / 1000 (fixed point, thousandths); "nan", "inf" and "-inf" are    *)
(* the non-finite values.  f64::round rounds half away from zero.          *)
(***************************************************************************)
F64(class, milli) == [class |-> class, milli |-> milli]
Finite(m) == F64("finite", m)

Abs(a) == IF a < 0 THEN -a ELSE a
\* a / b truncated toward zero, its remainder, and a / b rounded half away
TruncDiv(a, b) == IF a >= 0 THEN a \div b ELSE -((-a) \div b)
TruncRem(a, b) == a - b * TruncDiv(a, b)
RoundDiv(a, b) ==
    IF a >= 0 THEN (2 * a + b) \div (2 * b) ELSE -((2 * (-a) + b) \div (2 * b))

\* number.trunc() as i64: the cast saturates, and NaN casts to 0
trunc_as_i64(x) ==
    CASE x.class = "finite" -> FromInt(TruncDiv(x.milli, 1000))
      [] x.class = "inf"    -> I64_MAX
      [] x.class = "-inf"   -> I64_MIN
      [] OTHER              -> FromInt(0)

\* ((number.fract() * 100.0).abs().round()) as i64; the fraction of a
\* non-finite value is NaN
decimal_part_of(x) ==
    IF x.class = "finite"
    THEN RoundDiv(Abs(TruncRem(x.milli, 1000)), 10)
    ELSE 0

decimal_to_text(x) ==
    LET integer_part == trunc_as_i64(x)
        decimal_part == decimal_part_of(x)
        int_text == number_to_text(integer_part)
    IN  IF ~int_text.ok THEN int_text
        ELSE IF decimal_part > 0
        THEN LET dec_text == number_to_text(FromInt(decimal_part))
             IN  IF ~dec_text.ok THEN dec_text
                 ELSE Ok(int_text.val \o " point " \o dec_text.val)
        ELSE int_text

\* (number * 100.0).round(): the amount in whole cents
round_to_cents(x) == RoundDiv(x.milli, 10)

\* to_currency testing integer_part != 1 without .abs()
to_currency_signed_plural(x) ==
    IF x.class # "finite" THEN Err("InvalidInput")
    ELSE
      LET rounded == round_to_cents(x)
          integer_part == TruncDiv(rounded, 100)
          cents == Abs(TruncRem(rounded, 100))
          int_text == number_to_text(FromInt(integer_part))
          dollars == int_text.val \o " Dollar" \o
                     (IF integer_part # 1 THEN "s" ELSE "")
      IN  IF ~int_text.ok THEN int_text
          ELSE IF cents > 0
          THEN LET cent_text == number_to_text(FromInt(cents))
               IN  IF ~cent_text.ok THEN cent_text
                   ELSE Ok(dollars \o " and " \o cent_text.val \o " Cent" \o
                           (IF cents # 1 THEN "s" ELSE ""))
          ELSE Ok(dollars)

to_currency(x) ==
    IF x.class # "finite" THEN Err("InvalidInput")
    ELSE
      LET rounded == round_to_cents(x)
          integer_part == TruncDiv(rounded, 100)
          cents == Abs(TruncRem(rounded, 100))
          int_text == number_to_text(FromInt(integer_part))
          dollars == int_text.val \o " Dollar" \o
                     (IF Abs(integer_part) # 1 THEN "s" ELSE "")
      IN  IF ~int_text.ok THEN int_text
          ELSE IF cents > 0
          THEN LET cent_text == number_to_text(FromInt(cents))
               IN  IF ~cent_text.ok THEN cent_text
                   ELSE Ok(dollars \o " and " \o cent_text.val \o " Cent" \o
                           (IF cents # 1 THEN "s" ELSE ""))
          ELSE Ok(dollars)

(***************************************************************************)
(* Multilingual converter.  Module strings are ASCII: the Arabic words of  *)
(* AR_WORDS are written in Latin transliteration, one token per source     *)
(* word, and the Spanish "Dieciseis" drops its accent.                     *)
(***************************************************************************)
UpperChars == <<"A", "B", "C", "D", "E", "F", "G", "H", "I", "J", "K", "L", "M",
                "N", "O", "P", "Q", "R", "S", "T", "U", "V", "W", "X", "Y", "Z">>
LowerChars == <<"a", "b", "c", "d", "e", "f", "g", "h", "i", "j", "k", "l", "m",
                "n", "o", "p", "q", "r", "s", "t", "u", "v", "w", "x", "y", "z">>

LowerChar(c) ==
    IF \E i \in 1..26 : UpperChars[i] = c
    THEN LowerChars[CHOOSE i \in 1..26 : UpperChars[i] = c]
    ELSE c
UpperChar(c) ==
    IF \E i \in 1..26 : LowerChars[i] = c
    THEN UpperChars[CHOOSE i \in 1..26 : LowerChars[i] = c]
    ELSE c

\* str::to_lowercase
to_lowercase(s) == join([i \in 1..Len(s) |-> LowerChar(SubSeq(s, i, i))], "")

\* first char upper-cased + &word[1..]
capitalize(s) == UpperChar(SubSeq(s, 1, 1)) \o SubSeq(s, 2, Len(s))

\* scales[i] of the source is scales[i + 1] here (sequences start at 1);
\* units[i] and tens[i] are units[i + 1] and tens[i + 1].
EN_WORDS == [
    units |-> <<"", "One", "Two", "Three", "Four", "Five", "Six", "Seven", "Eight",
                "Nine", "Ten", "Eleven", "Twelve", "Thirteen", "Fourteen", "Fifteen",
                "Sixteen", "Seventeen", "Eighteen", "Nineteen">>,
    tens |-> <<"", "", "Twenty", "Thirty", "Forty", "Fifty", "Sixty", "Seventy",
               "Eighty", "Ninety">>,
    scales |-> <<"Billion", "Billion", "Million", "Thousand", "Hundred">>,
    zero |-> "Zero",
    minus |-> "Minus",
    and |-> "" ]

ES_WORDS == [
    units |-> <<"", "Uno", "Dos", "Tres", "Cuatro", "Cinco", "Seis", "Siete", "Ocho",
                "Nueve", "Diez", "Once", "Doce", "Trece", "Catorce", "Quince",
                "Dieciseis", "Diecisiete", "Dieciocho", "Diecinueve">>,
    tens |-> <<"", "", "Veinte", "Treinta", "Cuarenta", "Cincuenta", "Sesenta",
               "Setenta", "Ochenta", "Noventa">>,
    scales |-> <<"Billon", "Mil Millones", "Millon", "Mil", "Cien">>,
    zero |-> "Cero",
    minus |-> "Menos",
    and |-> "y" ]

AR_WORDS == [
    units |-> <<"", "wahid", "ithnan", "thalatha", "arbaa", "khamsa", "sitta",
                "sabaa", "thamaniya", "tisaa", "ashara", "ahad ashar", "ithna ashar",
                "thalatha ashar", "arbaa ashar", "khamsa ashar", "sitta ashar",
                "sabaa ashar", "thamaniya ashar", "tisaa ashar">>,
    tens |-> <<"", "", "ishrun", "thalathun", "arbaun", "khamsun", "sittun",
               "sabun", "thamanun", "tisun">>,
    scales |-> <<"milyar", "milyar", "milyun", "alf", "mia">>,
    zero |-> "sifr",
    minus |-> "salib",
    and |-> "wa" ]

AR_ZERO == "sifr"          \* the literal the Arabic branches compare words.zero with
AR_HUNDRED == "mia"        \* the literal of hundreds = 1
AR_TWO_HUNDRED == "miatan" \* the literal of hundreds = 2

\* Ok(table) or Err(UnsupportedLanguage)
get_language_words(code) ==
    LET l == to_lowercase(code)
    IN  CASE l \in {"en", "eng", "english"} -> [ok |-> TRUE, val |-> EN_WORDS, err |-> ""]
          [] l \in {"es", "esp", "spanish"} -> [ok |-> TRUE, val |-> ES_WORDS, err |-> ""]
          [] l \in {"ar", "ara", "arabic"}  -> [ok |-> TRUE, val |-> AR_WORDS, err |-> ""]
          [] OTHER -> [ok |-> FALSE, val |-> EN_WORDS, err |-> "UnsupportedLanguage"]

\* hundreds_words pushing the conjunction for every language that has one
hundreds_words_any_conj(hundreds, remaining, had_result, words) ==
    LET arabic == words.zero = AR_ZERO
        conj == IF had_result /\ words.and # "" THEN <<words.and>> ELSE <<>>
        group ==
          IF arabic
          THEN CASE hundreds = 1 -> <<AR_HUNDRED>>
                 [] hundreds = 2 -> <<AR_TWO_HUNDRED>>
                 [] hundreds \in 3..9 -> <<words.units[hundreds + 1] \o " " \o AR_HUNDRED>>
                 [] OTHER -> <<>>
          ELSE IF hundreds = 1
          THEN IF remaining = 0 THEN <<words.scales[5]>> ELSE <<"Ciento">>
          ELSE <<capitalize(to_lowercase(words.units[hundreds + 1]) \o "cientos")>>
    IN  conj \o group

\* the words pushed for the hundreds group
hundreds_words(hundreds, remaining, had_result, words) ==
    LET arabic == words.zero = AR_ZERO
        conj == IF had_result /\ words.and # "" /\ arabic THEN <<words.and>> ELSE <<>>
        group ==
          IF arabic
          THEN CASE hundreds = 1 -> <<AR_HUNDRED>>
                 [] hundreds = 2 -> <<AR_TWO_HUNDRED>>
                 [] hundreds \in 3..9 -> <<words.units[hundreds + 1] \o " " \o AR_HUNDRED>>
                 [] OTHER -> <<>>
          ELSE IF hundreds = 1
          THEN IF remaining = 0 THEN <<words.scales[5]>> ELSE <<"Ciento">>
          ELSE <<capitalize(to_lowercase(words.units[hundreds + 1]) \o "cientos")>>
    IN  conj \o group

\* tens_units_words taking the atomic unit word below 10 instead of below 20
tens_units_words_ten_limit(remaining, had_result, words) ==
    LET arabic == words.zero = AR_ZERO
        conj == IF had_result /\ words.and # "" THEN <<words.and>> ELSE <<>>
        and_word == IF words.and # "" THEN <<words.and>> ELSE <<>>
        tens_digit == remaining \div 10
        units_digit == remaining % 10
        group ==
          IF remaining < 10 THEN <<words.units[remaining + 1]>>
          ELSE IF arabic
          THEN (IF units_digit > 0
                THEN <<words.units[units_digit + 1]>> \o and_word
                ELSE <<>>) \o <<words.tens[tens_digit + 1]>>
          ELSE <<words.tens[tens_digit + 1]>> \o
               (IF units_digit > 0
                THEN and_word \o <<words.units[units_digit + 1]>>
                ELSE <<>>)
    IN  conj \o group

\* tens_units_words without the Arabic branch: tens before units everywhere
tens_units_words_latin_order(remaining, had_result, words) ==
    LET conj == IF had_result /\ words.and # "" THEN <<words.and>> ELSE <<>>
        and_word == IF words.and # "" THEN <<words.and>> ELSE <<>>
        tens_digit == remaining \div 10
        units_digit == remaining % 10
        group ==
          IF remaining < 20 THEN <<words.units[remaining + 1]>>
          ELSE <<words.tens[tens_digit + 1]>> \o
               (IF units_digit > 0
                THEN and_word \o <<words.units[units_digit + 1]>>
                ELSE <<>>)
    IN  conj \o group

\* the words pushed for the tens and units group, remaining in 1..99
tens_units_words(remaining, had_result, words) ==
    LET arabic == words.zero = AR_ZERO
        conj == IF had_result /\ words.and # "" THEN <<words.and>> ELSE <<>>
        and_word == IF words.and # "" THEN <<words.and>> ELSE <<>>
        tens_digit == remaining \div 10
        units_digit == remaining % 10
        group ==
          IF remaining < 20 THEN <<words.units[remaining + 1]>>
          ELSE IF arabic
          THEN (IF units_digit > 0
                THEN <<words.units[units_digit + 1]>> \o and_word
                ELSE <<>>) \o <<words.tens[tens_digit + 1]>>
          ELSE <<words.tens[tens_digit + 1]>> \o
               (IF units_digit > 0
                THEN and_word \o <<words.units[units_digit + 1]>>
                ELSE <<>>)
    IN  conj \o group

RECURSIVE convert_with_lang(_, _)
convert_with_lang(n, words) ==
    IF I64Ge(n, HALF_MAX) THEN ErrW("ValueTooLarge")
    ELSE
      LET has_thousands == I64Ge(n, FromInt(1000))
          thousands == I64DivScale(n, 1)
          sub == IF has_thousands /\ I64Less(FromInt(1), thousands)
                 THEN convert_with_lang(thousands, words)
                 ELSE Ok(<<>>)
          r1 == IF has_thousands THEN sub.val \o <<words.scales[4]>> ELSE <<>>
          \* remaining after the thousands step, still an i64
          rem1 == IF has_thousands THEN I64RemScale(n, 1) ELSE n
          has_hundreds == I64Ge(rem1, FromInt(100))
          hundreds == ToInt(rem1) \div 100
          \* remaining after the hundreds step: it is rem1 % 100 when the step
          \* ran, and rem1 itself (below 100) otherwise
          rem_positive == IF has_hundreds THEN I64RemSmall(rem1, 100) > 0
                          ELSE I64Less(FromInt(0), rem1)
          rem2 == I64RemSmall(rem1, 100)
          r2 == IF has_hundreds
                THEN r1 \o hundreds_words(hundreds, rem2, r1 # <<>>, words)
                ELSE r1
          r3 == IF rem_positive
                THEN r2 \o tens_units_words(rem2, r2 # <<>>, words)
                ELSE r2
      IN  IF ~sub.ok THEN sub ELSE Ok(r3)

number_to_text_lang(n, code) ==
    LET table == get_language_words(code)
        words == table.val
    IN  IF ~table.ok THEN Err(table.err)
        ELSE IF n.mag = ZeroMag THEN Ok(words.zero)
        ELSE IF abs_overflows(n) /\ overflow_checks THEN Panic
        ELSE LET minus == IF n.neg THEN <<words.minus>> ELSE <<>>
                 c == convert_with_lang(wrapping_abs(n), words)
             IN  IF ~c.ok THEN Err(c.err) ELSE Ok(join(minus \o c.val, " "))

(***************************************************************************)
(* The explored inputs                                                     *)
(***************************************************************************)
SmallNumbers == {FromInt(n) : n \in (-MaxSmall)..MaxSmall}

\* numbers of every scale: each group below the top one is 0, 42 or 999
GroupSamples == {0, 42, 999}
TopSamples == {0, 1, 4, 9}
ScaleNumbers ==
    {v \in {I64(s, <<g1, g2, g3, g4, g5, g6, g7>>) :
               s \in BOOLEAN, g1 \in GroupSamples, g2 \in GroupSamples,
               g3 \in GroupSamples, g4 \in GroupSamples, g5 \in GroupSamples,
               g6 \in GroupSamples, g7 \in TopSamples} : IsI64(v)}

\* the ends of the accepted range and of the type
EdgeMags == {
    <<902, 387, 427, 18, 686, 611, 4>>,     \* i64::MAX / 2 - 1
    <<903, 387, 427, 18, 686, 611, 4>>,     \* i64::MAX / 2
    <<904, 387, 427, 18, 686, 611, 4>>,     \* i64::MAX / 2 + 1
    <<806, 775, 854, 36, 372, 223, 9>>,     \* i64::MAX - 1
    <<807, 775, 854, 36, 372, 223, 9>>,     \* i64::MAX
    <<999, 999, 999, 999, 999, 999, 0>>,    \* 999_999_999_999_999_999
    <<567, 234, 1, 0, 0, 0, 0>>,            \* 1_234_567
    <<234, 1, 0, 0, 0, 0, 0>>,              \* 1_234
    <<0, 0, 0, 0, 0, 0, 1>> }               \* 10^18
EdgeNumbers == {I64(s, m) : s \in BOOLEAN, m \in EdgeMags} \cup {I64_MIN}

Numbers == SmallNumbers \cup ScaleNumbers \cup EdgeNumbers

NoNumber == FromInt(0)

RomanArgs == {FromInt(n) : n \in (-3)..MaxRomanArg} \cup EdgeNumbers

\* A decimal with three places is explored when binary floating point and
\* fixed point round it alike: it is no tie of the rounding to two places
\* (last digit 5), or it is a multiple of 1/8 and so exact in binary.
Exact(m) == m % 10 # 5 \/ m % 125 = 0
SampleMillis == {42420, 100050, 100000, 999996, 1000000, 12345678}
Millis == {m \in (-MaxMilli)..MaxMilli : Exact(m)}
            \cup SampleMillis \cup {-m : m \in SampleMillis}
Amounts == {Finite(m) : m \in Millis} \cup {F64(c, 0) : c \in {"nan", "inf", "-inf"}}

NoAmount == Finite(0)

LangCodes == {"en", "EN", "eng", "English", "es", "Spanish", "ar", "ARA", "fr", ""}

\* numbers with a thousands group: multiplier * 1000 + the lower groups
ThousandNumbers ==
    {FromInt(t * 1000 + low) :
        t \in {1, 2, 19, 21, 100, 101, 200, 342, 999},
        low \in {0, 1, 10, 19, 20, 21, 99, 100, 101, 120, 200, 234, 300, 999}}

\* the integers the multilingual converter is explored on
LangNumbers ==
    {FromInt(n) : n \in (-MaxSmall)..MaxSmall}
      \cup {v \in ScaleNumbers : v.mag[1] = 42 /\ v.mag[2] # 42}
      \cup {FromInt(n) : n \in {1234, 2000, 21000, 100000, 101101, 999999, 1000000}}
      \cup ThousandNumbers
      \cup EdgeNumbers

(***************************************************************************)
(* The program: the prompt loop calls one library function per request.    *)
(***************************************************************************)
Init ==
    /\ pc = "prompt"
    /\ overflow_checks \in BOOLEAN
    /\ op = "none"
    /\ number = NoNumber
    /\ amount = NoAmount
    /\ lang = ""
    /\ result = Ok("")
    /\ stack = <<>>

CallNumberToText ==
    /\ pc = "prompt"
    /\ \E n \in Numbers :
         /\ number' = n
         /\ result' = number_to_text(n)
    /\ op' = "number_to_text"
    /\ pc' = "printed"
    /\ UNCHANGED <<overflow_checks, amount, lang, stack>>

\* args.language = "en" goes to number_to_text (CallNumberToText)
CallNumberToTextLang ==
    /\ pc = "prompt"
    /\ \E n \in LangNumbers, code \in LangCodes :
         /\ code # "en"
         /\ number' = n
         /\ lang' = code
         /\ result' = number_to_text_lang(n, code)
    /\ op' = "number_to_text_lang"
    /\ pc' = "printed"
    /\ UNCHANGED <<overflow_checks, amount, stack>>

CallToOrdinal ==
    /\ pc = "prompt"
    /\ \E n \in Numbers :
         /\ number' = n
         /\ result' = to_ordinal(n)
    /\ op' = "to_ordinal"
    /\ pc' = "printed"
    /\ UNCHANGED <<overflow_checks, amount, lang, stack>>

CallToRoman ==
    /\ pc = "prompt"
    /\ \E n \in RomanArgs :
         /\ number' = n
         /\ result' = to_roman(n)
    /\ op' = "to_roman"
    /\ pc' = "printed"
    /\ UNCHANGED <<overflow_checks, amount, lang, stack>>

CallToCurrency ==
    /\ pc = "prompt"
    /\ \E x \in Amounts :
         /\ amount' = x
         /\ result' = to_currency(x)
    /\ op' = "to_currency"
    /\ pc' = "printed"
    /\ UNCHANGED <<overflow_checks, number, lang, stack>>

CallDecimalToText ==
    /\ pc = "prompt"
    /\ \E x \in Amounts :
         /\ amount' = x
         /\ result' = decimal_to_text(x)
    /\ op' = "decimal_to_text"
    /\ pc' = "printed"
    /\ UNCHANGED <<overflow_checks, number, lang, stack>>

\* the loop of run_interactive_mode: the result is printed, the next line read
Prompt ==
    /\ pc = "printed"
    /\ pc' = "prompt"
    /\ op' = "none"
    /\ number' = NoNumber
    /\ amount' = NoAmount
    /\ lang' = ""
    /\ result' = Ok("")
    /\ UNCHANGED <<overflow_checks, stack>>

Next ==
    \/ CallNumberToText
    \/ CallNumberToTextLang
    \/ CallToOrdinal
    \/ CallToRoman
    \/ CallToCurrency
    \/ CallDecimalToText
    \/ Prompt

Spec == Init /\ [][Next]_vars

(***************************************************************************)
(* The calls of one conversion, one step per call and per return.          *)
(* pc = "call": the call on top of the stack has just been entered;        *)
(* pc = "return": a call has returned to the one on top of the stack, or,  *)
(* with an empty stack, to the library function itself.                    *)
(***************************************************************************)
\* stack frames available to the program
MaxDepth == 9

\* convert_calls recursing on number instead of number % divisor
convert_calls_number(n) ==
    IF I64Ge(n, HALF_MAX) THEN <<>>
    ELSE LET i == FirstScale(n, 1)
         IN  IF i = 0 THEN <<>>
             ELSE LET quotient == I64DivScale(n, SCALE_UNITS[i].exp)
                      remainder == I64RemScale(n, SCALE_UNITS[i].exp)
                  IN  IF I64Ge(quotient, FromInt(1000)) THEN <<>>
                      ELSE IF remainder.mag # ZeroMag THEN <<n>> ELSE <<>>

\* the arguments of the calls of convert made by convert(number), through
\* convert_large_number: convert(remainder), unless the limit test or the
\* quotient's error returned before it
convert_calls(n) ==
    IF I64Ge(n, HALF_MAX) THEN <<>>
    ELSE LET i == FirstScale(n, 1)
         IN  IF i = 0 THEN <<>>
             ELSE LET quotient == I64DivScale(n, SCALE_UNITS[i].exp)
                      remainder == I64RemScale(n, SCALE_UNITS[i].exp)
                  IN  IF I64Ge(quotient, FromInt(1000)) THEN <<>>
                      ELSE IF remainder.mag # ZeroMag THEN <<remainder>> ELSE <<>>

\* the arguments of the calls of convert_with_lang made by
\* convert_with_lang(number, words): convert_with_lang(thousands, words)
convert_with_lang_calls(n) ==
    IF I64Ge(n, HALF_MAX) THEN <<>>
    ELSE IF I64Ge(n, FromInt(1000)) /\ I64Less(FromInt(1), I64DivScale(n, 1))
    THEN <<I64DivScale(n, 1)>>
    ELSE <<>>

\* the conversions followed call by call: every scale with each lower group
\* empty or full, the edges of the range, and the numbers around 1000
CallNumbers ==
    {v \in ScaleNumbers : ~v.neg /\ \A g \in 1..(NGroups - 1) : v.mag[g] \in {0, 999}}
      \cup EdgeNumbers
      \cup {FromInt(n) : n \in {-1000, -1, 0, 1, 999, 1000, 1001, 1999, 2000}}
CallCodes == {"en", "EN", "es", "ARA", "fr"}

Top == stack[Len(stack)]
Pop == SubSeq(stack, 1, Len(stack) - 1)

\* number_to_text up to its call of convert
EnterNumberToText ==
    /\ pc = "prompt"
    /\ \E n \in CallNumbers :
         /\ number' = n
         /\ IF n.mag # ZeroMag /\ ~(abs_overflows(n) /\ overflow_checks)
            THEN stack' = <<wrapping_abs(n)>> /\ pc' = "call"
            ELSE stack' = <<>> /\ pc' = "return"
    /\ op' = "number_to_text"
    /\ UNCHANGED <<overflow_checks, amount, lang, result>>

\* process_input with args.language # "en": number_to_text_lang up to its
\* call of convert_with_lang
EnterNumberToTextLang ==
    /\ pc = "prompt"
    /\ \E n \in CallNumbers, code \in CallCodes :
         /\ code # "en"
         /\ number' = n
         /\ lang' = code
         /\ IF /\ get_language_words(code).ok
               /\ n.mag # ZeroMag
               /\ ~(abs_overflows(n) /\ overflow_checks)
            THEN stack' = <<wrapping_abs(n)>> /\ pc' = "call"
            ELSE stack' = <<>> /\ pc' = "return"
    /\ op' = "number_to_text_lang"
    /\ UNCHANGED <<overflow_checks, amount, result>>

\* convert -> convert_large_number -> convert(remainder)
ConvertCalls ==
    /\ pc = "call"
    /\ op = "number_to_text"
    /\ convert_calls(Top) # <<>>
    /\ Len(stack) < MaxDepth
    /\ stack' = Append(stack, convert_calls(Top)[1])
    /\ UNCHANGED <<pc, overflow_checks, op, number, amount, lang, result>>

\* convert returns without a further call
ConvertReturns ==
    /\ pc = "call"
    /\ op = "number_to_text"
    /\ convert_calls(Top) = <<>>
    /\ stack' = Pop
    /\ pc' = "return"
    /\ UNCHANGED <<overflow_checks, op, number, amount, lang, result>>

\* convert_with_lang -> convert_with_lang(thousands, words)
ConvertWithLangCalls ==
    /\ pc = "call"
    /\ op = "number_to_text_lang"
    /\ convert_with_lang_calls(Top) # <<>>
    /\ Len(stack) < MaxDepth
    /\ stack' = Append(stack, convert_with_lang_calls(Top)[1])
    /\ UNCHANGED <<pc, overflow_checks, op, number, amount, lang, result>>

\* convert_with_lang returns without a further call
ConvertWithLangReturns ==
    /\ pc = "call"
    /\ op = "number_to_text_lang"
    /\ convert_with_lang_calls(Top) = <<>>
    /\ stack' = Pop
    /\ pc' = "return"
    /\ UNCHANGED <<overflow_checks, op, number, amount, lang, result>>

\* the caller, given its callee's result, makes no further call and returns
Unwind ==
    /\ pc = "return"
    /\ stack # <<>>
    /\ stack' = Pop
    /\ UNCHANGED <<pc, overflow_checks, op, number, amount, lang, result>>

\* the library function returns
Finish ==
    /\ pc = "return"
    /\ stack = <<>>
    /\ result' = IF op = "number_to_text"
                 THEN number_to_text(number)
                 ELSE number_to_text_lang(number, lang)
    /\ pc' = "printed"
    /\ UNCHANGED <<overflow_checks, op, number, amount, lang, stack>>

\* a step of the recursion of the running conversion
Recursion ==
    \/ ConvertCalls
    \/ ConvertReturns
    \/ ConvertWithLangCalls
    \/ ConvertWithLangReturns
    \/ Unwind

NextCalls ==
    \/ EnterNumberToText
    \/ EnterNumberToTextLang
    \/ Recursion
    \/ Finish
    \/ Prompt

\* a call that has been entered keeps running: the program is sequential
SpecCalls == Init /\ [][NextCalls]_vars /\ WF_vars(Recursion)

TypeOK ==
    /\ pc \in {"prompt", "call", "return", "printed"}
    /\ overflow_checks \in BOOLEAN
    /\ IsI64(number)
    /\ amount.class \in {"finite", "nan", "inf", "-inf"}
    /\ result.ok \in BOOLEAN

(***************************************************************************)
(* Properties                                                              *)
(***************************************************************************)
Called(f) == pc = "printed" /\ op = f

\* -v, for v above i64::MIN
I64Neg(v) == I64(~v.neg /\ v.mag # ZeroMag, v.mag)

\* the value of the argument when it is a small non-negative integer
IsSmall(v, limit) == ~v.neg /\ Fits(v) /\ ToInt(v) < limit

UnitWord(u) ==
    <<"One", "Two", "Three", "Four", "Five", "Six", "Seven", "Eight", "Nine", "Ten",
      "Eleven", "Twelve", "Thirteen", "Fourteen", "Fifteen", "Sixteen", "Seventeen",
      "Eighteen", "Nineteen">>[u]
TensWord(t) ==
    <<"Twenty", "Thirty", "Forty", "Fifty", "Sixty", "Seventy", "Eighty", "Ninety">>[t - 1]

\* the rendering of 1..999 as the specification words it
SmallWords(n) ==
    LET r == n % 100
        hundred == IF n >= 100 THEN <<UnitWord(n \div 100), "Hundred">> ELSE <<>>
        conj == IF n >= 100 /\ r # 0 THEN <<"and">> ELSE <<>>
        low == CASE r = 0 -> <<>>
                 [] r \in 1..19 -> <<UnitWord(r)>>
                 [] r >= 20 /\ r % 10 = 0 -> <<TensWord(r \div 10)>>
                 [] OTHER -> <<TensWord(r \div 10), UnitWord(r % 10)>>
    IN  hundred \o conj \o low
SmallText(n) == IF n = 0 THEN "Zero" ELSE join(SmallWords(n), " ")

\* C1: for 0 <= n < 1000, number_to_text(n) is "Zero" for 0 and otherwise the
\* hundreds word with "Hundred", "and" only after a hundreds word, then the
\* atomic word below 20 or the tens word followed by a non-zero unit's word.
C1_SmallRendering ==
    (Called("number_to_text") /\ IsSmall(number, 1000))
        => result = Ok(SmallText(ToInt(number)))

C1_Witness ==
    /\ Called("number_to_text")
    /\ number = FromInt(999)
    /\ result = Ok("Nine Hundred and Ninety Nine")

\* the scale tier of n >= 1000: the k with 1000^k <= n < 1000^(k+1)
TopGroup(v) == CHOOSE i \in GroupIdx :
                 v.mag[i] # 0 /\ \A j \in (i + 1)..NGroups : v.mag[j] = 0
Tier(v) == TopGroup(v) - 1
TierName(k) == SCALE_UNITS[CHOOSE e \in 1..Len(SCALE_UNITS) : SCALE_UNITS[e].exp = k].unit
Accepted(v) == ~v.neg /\ I64Less(v, HALF_MAX)

\* C2: for 1000 <= n < i64::MAX/2, with d the first (largest) scale divisor
\* <= n, number_to_text(n) is the sub-1000 rendering of n / d, the scale
\* name, and number_to_text(n % d) when n % d is non-zero, joined by single
\* spaces; 10^3 is named "Million" and 10^6 "Billion".
C2_ScaleRendering ==
    (Called("number_to_text") /\ Accepted(number) /\ I64Ge(number, FromInt(1000)))
        => LET k == Tier(number)
               q == I64DivScale(number, k)
               r == I64RemScale(number, k)
           IN  /\ IsSmall(q, 1000)
               /\ TierName(1) = "Million"
               /\ TierName(2) = "Billion"
               /\ result = Ok(SmallText(ToInt(q)) \o " " \o TierName(k) \o
                              (IF r.mag # ZeroMag
                               THEN " " \o number_to_text(r).val
                               ELSE ""))

C2_Witness ==
    /\ Called("number_to_text")
    /\ number = FromInt(1234567)
    /\ result = Ok("One Billion Two Hundred and Thirty Four Million Five Hundred and Sixty Seven")

\* C3: for 0 < n < i64::MAX/2, number_to_text(-n) is "Minus " followed by
\* number_to_text(n).
C3_MinusPrefix ==
    (Called("number_to_text") /\ number.neg /\ Accepted(I64Neg(number)))
        => /\ number_to_text(I64Neg(number)).ok
           /\ result = Ok("Minus " \o number_to_text(I64Neg(number)).val)

C3_Witness ==
    /\ Called("number_to_text")
    /\ number = FromInt(-1234)
    /\ result = Ok("Minus One Million Two Hundred and Thirty Four")

SupportedCodes == {"en", "EN", "eng", "English", "es", "Spanish", "ar", "ARA"}

\* C4: for i64::MAX/2 <= |n| <= i64::MAX, of either sign, number_to_text(n)
\* and number_to_text_lang(n, lang) with a supported lang return the error
\* ValueTooLarge itself, not wrapped in ConversionError.
C4_ValueTooLarge ==
    (/\ pc = "printed"
     /\ \/ op = "number_to_text"
        \/ op = "number_to_text_lang" /\ lang \in SupportedCodes
     /\ number # I64_MIN
     /\ I64Ge(I64(FALSE, number.mag), HALF_MAX))
        => result = Err("ValueTooLarge")

C4_Witness ==
    /\ Called("number_to_text_lang")
    /\ lang = "ar"
    /\ number = I64Neg(HALF_MAX)
    /\ result = Err("ValueTooLarge")

\* C5: number_to_text(i64::MIN) returns the error InvalidInput.
C5_MinRejected ==
    (Called("number_to_text") /\ number = I64_MIN)
        => result = Err("InvalidInput")

\* the greedy choice: the largest table value that fits, repeatedly
Largest(n) == CHOOSE i \in 1..Len(ROMAN_NUMERALS) :
                /\ ROMAN_NUMERALS[i].value <= n
                /\ \A j \in 1..Len(ROMAN_NUMERALS) :
                     ROMAN_NUMERALS[j].value <= n
                        => ROMAN_NUMERALS[j].value <= ROMAN_NUMERALS[i].value
RECURSIVE Greedy(_)
Greedy(n) ==
    IF n = 0 THEN <<>>
    ELSE <<Largest(n)>> \o Greedy(n - ROMAN_NUMERALS[Largest(n)].value)
RECURSIVE SumValues(_)
SumValues(es) ==
    IF es = <<>> THEN 0 ELSE ROMAN_NUMERALS[Head(es)].value + SumValues(Tail(es))
Times(es, numeral) ==
    Cardinality({k \in 1..Len(es) : ROMAN_NUMERALS[es[k]].numeral = numeral})

\* C6: to_roman(n) is InvalidInput for n <= 0 and n > 3999; for 1 <= n <= 3999
\* it is the numerals of the greedy choice from the 13-entry table, whose
\* values are non-increasing and sum to n, with M, C, X, I at most three
\* times and every other entry at most once.
C6_Roman ==
    Called("to_roman")
        => IF ~IsSmall(number, 4000) \/ number.mag = ZeroMag
           THEN result = Err("InvalidInput")
           ELSE LET es == Greedy(ToInt(number))
                IN  /\ Len(ROMAN_NUMERALS) = 13
                    /\ result = Ok(join([k \in 1..Len(es) |->
                                            ROMAN_NUMERALS[es[k]].numeral], ""))
                    /\ \A k \in 1..(Len(es) - 1) :
                         /\ es[k] <= es[k + 1]
                         /\ ROMAN_NUMERALS[es[k]].value >= ROMAN_NUMERALS[es[k + 1]].value
                    /\ SumValues(es) = ToInt(number)
                    /\ \A c \in {"M", "C", "X", "I"} : Times(es, c) <= 3
                    /\ \A c \in {"CM", "D", "CD", "XC", "L", "XL", "IX", "V", "IV"} :
                         Times(es, c) <= 1

C6_Witness ==
    /\ Called("to_roman")
    /\ number = FromInt(3999)
    /\ result = Ok("MMMCMXCIX")

\* the suffix of the last two decimal digits
DigitSuffix(v) ==
    LET two == v.mag[1] % 100
        one == v.mag[1] % 10
    IN  CASE two \in {11, 12, 13} -> "th"
          [] one = 1 -> "st"
          [] one = 2 -> "nd"
          [] one = 3 -> "rd"
          [] OTHER -> "th"

\* C7: for every n that number_to_text accepts, negative n included,
\* to_ordinal(n) is number_to_text(n) followed by " (" n suffix ")", the
\* suffix being "th" for last two digits 11, 12, 13, else "st", "nd", "rd"
\* for a last digit 1, 2, 3, else "th".
C7_OrdinalSuffix ==
    (Called("to_ordinal") /\ number_to_text(number).ok)
        => result = Ok(number_to_text(number).val \o " (" \o i64_to_string(number)
                       \o DigitSuffix(number) \o ")")

\* the amount in whole cents: the nearest, a tie going away from zero
NearestCents(m) ==
    CHOOSE c \in (-(Abs(m) \div 10) - 1)..((Abs(m) \div 10) + 1) :
        /\ Abs(10 * c - m) <= 5
        /\ (Abs(10 * c - m) = 5 => Abs(10 * c) > Abs(m))
Plural(k) == IF k = 1 THEN "" ELSE "s"

\* C8: with D the integer part and C in 0..99 the cents of the amount
\* rounded to 2 places, to_currency is number_to_text(D) " Dollar", with
\* "s" iff |D| is not 1, and " and " number_to_text(C) " Cent", with "s"
\* iff C is not 1, appended iff C is non-zero.
C8_Currency ==
    (Called("to_currency") /\ amount.class = "finite")
        => LET cents_total == NearestCents(amount.milli)
               d_abs == Abs(cents_total) \div 100
               D == IF cents_total < 0 THEN -d_abs ELSE d_abs
               C == Abs(cents_total) % 100
           IN  result = Ok(number_to_text(FromInt(D)).val \o " Dollar" \o Plural(d_abs)
                           \o (IF C # 0
                               THEN " and " \o number_to_text(FromInt(C)).val
                                    \o " Cent" \o Plural(C)
                               ELSE ""))

C8_Witness ==
    /\ Called("to_currency")
    /\ amount = Finite(1234)
    /\ result = Ok("One Dollar and Twenty Three Cents")

StartsWith(s, prefix) == Len(s) >= Len(prefix) /\ SubSeq(s, 1, Len(prefix)) = prefix

\* C9: for every negative decimal whose value rounded to 2 places is
\* non-zero, the outputs of to_currency and decimal_to_text begin with
\* "Minus", also when the integer part truncates to 0.
C9_NegativeMinus ==
    (/\ pc = "printed"
     /\ op \in {"to_currency", "decimal_to_text"}
     /\ amount.class = "finite"
     /\ amount.milli < 0
     /\ NearestCents(amount.milli) # 0)
        => result.ok /\ StartsWith(result.val, "Minus")

\* C10: decimal_to_text renders the truncated integer part I and the
\* fraction F = |fraction| * 100 rounded, F always in 0..99; the output is
\* number_to_text(I) when F = 0 and number_to_text(I) " point "
\* number_to_text(F) otherwise.
C10_DecimalFraction ==
    (Called("decimal_to_text") /\ amount.class = "finite")
        => LET i_abs == Abs(amount.milli) \div 1000
               I == IF amount.milli < 0 THEN -i_abs ELSE i_abs
               F == Abs(NearestCents(Abs(amount.milli) % 1000))
           IN  /\ decimal_part_of(amount) = F
               /\ decimal_part_of(amount) \in 0..99
               /\ result = IF F = 0 THEN number_to_text(FromInt(I))
                           ELSE Ok(number_to_text(FromInt(I)).val \o " point "
                                   \o number_to_text(FromInt(F)).val)

EnglishCodes == {"en", "EN", "eng", "English"}
SpanishCodes == {"es", "Spanish"}
ArabicCodes == {"ar", "ARA"}
TableOf(code) ==
    CASE code \in SpanishCodes -> ES_WORDS
      [] code \in ArabicCodes -> AR_WORDS
      [] OTHER -> EN_WORDS

EndsWith(s, suffix) ==
    Len(s) >= Len(suffix) /\ SubSeq(s, Len(s) - Len(suffix) + 1, Len(s)) = suffix

\* the tens/units group of r in 1..99 as the specification orders it
TensUnitsGroup(r, code) ==
    LET w == TableOf(code)
        unit == w.units[(r % 10) + 1]
        ten == w.tens[(r \div 10) + 1]
    IN  IF r <= 19 THEN <<w.units[r + 1]>>
        ELSE IF r % 10 = 0 THEN <<ten>>
        ELSE IF code \in ArabicCodes THEN <<unit, w.and, ten>>
        ELSE <<ten, w.and, unit>>

\* C11: number_to_text_lang renders the last two digits r of n, in Arabic as
\* unit word, conjunction, tens word and in Spanish as tens word, "y", unit
\* word when 20 <= r <= 99 and r % 10 is non-zero, as the tens word alone
\* when r % 10 = 0, and as the single atomic unit word when 1 <= r <= 19.
C11_TensUnitsOrder ==
    (/\ Called("number_to_text_lang")
     /\ lang \in SpanishCodes \cup ArabicCodes
     /\ I64Less(I64(FALSE, number.mag), HALF_MAX)
     /\ number.mag[1] % 100 # 0)
        => LET group == join(TensUnitsGroup(number.mag[1] % 100, lang), " ")
           IN  /\ ES_WORDS.and = "y"
               /\ result.ok
               /\ IF IsSmall(number, 100)
                  THEN result.val = group
                  ELSE EndsWith(result.val, " " \o group)

C11_Witness ==
    /\ Called("number_to_text_lang")
    /\ lang = "ar"
    /\ number = FromInt(21)
    /\ result = Ok("wahid wa ishrun")

\* C12: in number_to_text_lang for 1 <= n < 1_000_000 the conjunction stands
\* before the hundreds group only in Arabic after a thousands group, and
\* before the tens/units group whenever an earlier group was emitted and the
\* conjunction is non-empty; English, whose conjunction is empty, gets no
\* separator word; the thousands multiplier is rendered only when
\* n / 1000 > 1.
C12_ConjunctionPlacement ==
    (/\ Called("number_to_text_lang")
     /\ lang \in EnglishCodes \cup SpanishCodes \cup ArabicCodes
     /\ IsSmall(number, 1000000)
     /\ number.mag # ZeroMag)
        => LET w == TableOf(lang)
               n == ToInt(number)
               T == n \div 1000
               H == (n % 1000) \div 100
               R == n % 100
               multiplier == IF T > 1
                             THEN <<number_to_text_lang(FromInt(T), lang).val>>
                             ELSE <<>>
               thousand == IF T >= 1 THEN <<w.scales[4]>> ELSE <<>>
               before_hundreds == IF lang \in ArabicCodes /\ T >= 1
                                  THEN <<w.and>> ELSE <<>>
               hundreds == IF H > 0
                           THEN before_hundreds \o hundreds_words(H, R, FALSE, w)
                           ELSE <<>>
               before_tens == IF (T >= 1 \/ H > 0) /\ w.and # ""
                              THEN <<w.and>> ELSE <<>>
               tens_units == IF R > 0
                             THEN before_tens \o tens_units_words(R, FALSE, w)
                             ELSE <<>>
           IN  /\ EN_WORDS.and = ""
               /\ result = Ok(join(multiplier \o thousand \o hundreds \o tens_units, " "))

C12_Witness ==
    /\ Called("number_to_text_lang")
    /\ lang = "es"
    /\ number = FromInt(1234)
    /\ result = Ok("Mil Doscientos y Treinta y Cuatro")

\* |n| < i64::MAX / 2
InRange(v) == I64Less(I64(FALSE, v.mag), HALF_MAX)

\* at every level of the decomposition of v the quotient is in 1..999
RECURSIVE QuotientsSmall(_)
QuotientsSmall(v) ==
    IF I64Less(v, FromInt(1000)) THEN TRUE
    ELSE LET i == FirstScale(v, 1)
         IN  /\ i # 0
             /\ LET k == SCALE_UNITS[i].exp
                    q == I64DivScale(v, k)
                IN  /\ IsSmall(q, 1000)
                    /\ q.mag # ZeroMag
                    /\ QuotientsSmall(I64RemScale(v, k))

\* C13: number_to_text(n) succeeds for every |n| < i64::MAX/2: consecutive
\* scale divisors differ by the factor 1000, the largest exceeds
\* (i64::MAX/2)/1000, so every quotient handed to convert_small_number is in
\* 1..999 and neither InvalidInput nor ConversionError is ever produced.
C13_AcceptedSucceeds ==
    Called("number_to_text")
        => /\ result.err \notin {"InvalidInput", "ConversionError"}
           /\ InRange(number)
                => /\ result.ok
                   /\ \A i \in 1..(Len(SCALE_UNITS) - 1) :
                        SCALE_UNITS[i].exp = SCALE_UNITS[i + 1].exp + 1
                   /\ SCALE_UNITS[Len(SCALE_UNITS)].exp = 1
                   /\ I64Less(I64DivScale(HALF_MAX, 1), Divisor(SCALE_UNITS[1].exp))
                   /\ QuotientsSmall(I64(FALSE, number.mag))

C13_Witness ==
    /\ Called("number_to_text")
    /\ number = I64(FALSE, <<999, 999, 999, 999, 999, 999, 0>>)
    /\ result.ok

Contains(s, part) ==
    \E i \in 1..(Len(s) - Len(part) + 1) : SubSeq(s, i, i + Len(part) - 1) = part

\* a text of non-empty words: no leading, trailing or doubled space, and
\* no word of the unreachable arm
WellFormed(text) ==
    /\ text # ""
    /\ ~StartsWith(text, " ")
    /\ ~EndsWith(text, " ")
    /\ ~Contains(text, "  ")
    /\ ~Contains(text, Unreachable)

\* C15: for |n| < i64::MAX/2 and every supported language no lookup leaves
\* the populated words: neither converter pushes an empty word (units[0],
\* tens[0], tens[1], the default arm of convert_tens) or the unreachable
\* arm of ordinalize, so no output has an empty word or a doubled space.
C15_NoEmptyWord ==
    (/\ pc = "printed"
     /\ \/ op = "number_to_text"
        \/ op = "number_to_text_lang"
           /\ lang \in EnglishCodes \cup SpanishCodes \cup ArabicCodes
     /\ InRange(number))
        => LET pushed == IF op = "number_to_text"
                         THEN convert(I64(FALSE, number.mag))
                         ELSE convert_with_lang(I64(FALSE, number.mag), TableOf(lang))
           IN  /\ result.ok
               /\ pushed.ok
               /\ \A k \in 1..Len(pushed.val) :
                    /\ pushed.val[k] # ""
                    /\ ~StartsWith(pushed.val[k], " ")
                    /\ ~StartsWith(pushed.val[k], Unreachable)
               /\ WellFormed(result.val)

C15_Witness ==
    /\ Called("number_to_text_lang")
    /\ lang = "es"
    /\ number = FromInt(1015)
    /\ result = Ok("Mil y Quince")

\* C16: number_to_text_lang(n, code) with an English code returns the same
\* string as number_to_text(n), for every |n| < i64::MAX/2.
C16_EnglishPathsAgree ==
    (/\ Called("number_to_text_lang")
     /\ lang \in EnglishCodes
     /\ InRange(number))
        => result = number_to_text(number)

\* each recursive call has a strictly smaller argument
Decreasing == \A i \in 2..Len(stack) : I64Less(stack[i], stack[i - 1])

\* each recursive call of convert has an argument below the divisor its
\* caller used
TierDrops ==
    \A i \in 2..Len(stack) :
        LET used == FirstScale(stack[i - 1], 1)
        IN  /\ used # 0
            /\ I64Less(stack[i], Divisor(SCALE_UNITS[used].exp))

\* every call of convert / convert_with_lang has returned: control is back
\* in number_to_text / number_to_text_lang, which joins the words and returns
Returned == pc = "return" /\ stack = <<>>

\* C14: the recursion of every call of number_to_text and of
\* number_to_text_lang terminates; at most 7 calls of convert are nested;
\* each recursive call of convert has an argument below the divisor just
\* used, and each recursive call of convert_with_lang (on n / 1000) a
\* strictly smaller argument.
C14_Terminates ==
    /\ [](op = "number_to_text" => Len(stack) <= 7 /\ TierDrops)
    /\ []Decreasing
    /\ (pc = "call") ~> Returned

C14_Witness ==
    /\ op = "number_to_text"
    /\ number = I64(FALSE, <<999, 999, 999, 999, 999, 999, 1>>)
    /\ pc = "call"
    /\ Len(stack) = 7

=============================================================================
